---- MODULE Spec2Model ----
(***************************************************************************)
(* The Track API of project-mongo-api: an Express application over one     *)
(* mongoose collection (Track).  The repository holds two builds of the    *)
(* server: src/server.js and the swagger-documented one                    *)
(* (src/unnamed/part_000).  They differ in two places: the documented      *)
(* build mounts /api-docs in front of the readiness middleware, and only   *)
(* server.js puts .limit(10) on the query of GET /tracks/.                 *)
(*                                                                         *)
(* A request is one slot of req.  Express runs the middleware chain and    *)
(* the synchronous part of a handler in one turn of the event loop, so the *)
(* readiness check, the dispatch and the issue of the first store query    *)
(* are one action; every completion of a store query is another.           *)
(***************************************************************************)
EXTENDS Integers, Sequences, FiniteSets, TLC

\* ------------------------------------------------------------- bounds
\* Longest initial content of the collection (one more than LIMIT, so that
\* the cap has something to cut).
MaxTracks == 11
\* Number of requests of a behaviour.
MaxReq == 2

\* --------------------------------------------------- program constants
\* .limit(10) of GET /tracks/ in server.js.
LIMIT == 10
\* { energy: { $gte: 80 } }
WorkoutEnergy == 80
\* { energy: { $lte: 20 } }
CalmEnergy == 20
\* mongoose.connection.readyState === 1
CONNECTED == 1
\* readyState while mongoose.connect() is under way, and after a loss.
CONNECTING == 2
DISCONNECTED == 0

Builds == {"server", "docs"}

\* ---------------------------------------------------------- documents
\* The fields of the Track schema the routes read.  _id is the key the
\* store assigns; the other fields come from the dataset.
Item(artist, genre, energy, danceability) ==
    [artistName |-> artist, genre |-> genre,
     energy |-> energy, danceability |-> danceability]

NewTrack(item, oid) ==
    [_id |-> oid, artistName |-> item.artistName, genre |-> item.genre,
     energy |-> item.energy, danceability |-> item.danceability]

\* Items the collection may hold: the energy values sit on and between the
\* two playlist bounds, the danceability values on and around 50.
Items ==
    { Item("Billie Eilish", "pop", 80, 50),
      Item("Billie Eilish", "rock", 20, 51),
      Item("Drake", "pop", 85, 70),
      Item("Drake", "rap", 15, 40),
      Item("Drake", "pop", 50, 0),
      Item("Billie Eilish", "pop", 79, 51) }

\* A collection of n documents holding a and b in turn, keyed 1..n in
\* insertion order.
Collection(n, a, b) ==
    [i \in 1..n |-> NewTrack(IF i % 2 = 1 THEN a ELSE b, i)]

\* top-music.json, the static dataset of the seed step.
topMusicData ==
    << Item("Drake", "pop", 85, 70), Item("Drake", "rap", 15, 40) >>

\* new Track(item) draws a fresh key: none of an earlier document.
SeedId(i) == MaxTracks + i

\* ------------------------------------------------ casting query values
\* Query-string values are strings, here sequences of characters.
Digits == {"0", "1", "2", "3", "4", "5", "6", "7", "8", "9"}

DigitVal(c) ==
    CASE c = "0" -> 0 [] c = "1" -> 1 [] c = "2" -> 2 [] c = "3" -> 3
      [] c = "4" -> 4 [] c = "5" -> 5 [] c = "6" -> 6 [] c = "7" -> 7
      [] c = "8" -> 8 [] c = "9" -> 9

RECURSIVE DecimalVal(_)
DecimalVal(s) ==
    IF s = << >> THEN 0
    ELSE 10 * DecimalVal(SubSeq(s, 1, Len(s) - 1)) + DigitVal(s[Len(s)])

\* mongoose's cast to Number: the empty string casts to null, a decimal
\* string to its value, anything else is a CastError.
CastNumber(s) ==
    IF s = << >> THEN [error |-> FALSE, null |-> TRUE, n |-> 0]
    ELSE IF \A i \in 1..Len(s) : s[i] \in Digits
         THEN [error |-> FALSE, null |-> FALSE, n |-> DecimalVal(s)]
         ELSE [error |-> TRUE, null |-> FALSE, n |-> 0]

NumberPaths == {"energy", "danceability"}

\* A filter (req.query) is a function from the supplied keys to values.
CastError(filter) ==
    \E f \in DOMAIN filter : f \in NumberPaths /\ CastNumber(filter[f]).error

\* One path of a document against the cast value of a filter key.  A null
\* matches only a missing field, and every document holds every field.
PathMatches(doc, f, v) ==
    IF f \in NumberPaths
    THEN LET c == CastNumber(v) IN ~c.error /\ ~c.null /\ doc[f] = c.n
    ELSE doc[f] = v

Matches(doc, filter) == \A f \in DOMAIN filter : PathMatches(doc, f, filter[f])

Take(s, n) == SubSeq(s, 1, IF Len(s) < n THEN Len(s) ELSE n)

\* Track.find(filter): the matching documents in the collection's order.
Find(coll, filter) == SelectSeq(coll, LAMBDA d : Matches(d, filter))

\* Mutant of FindGt: the comparison not strict ($gte for $gt).
FindGtOrEqual(coll, path, v) ==
    SelectSeq(coll, LAMBDA d : d[path] >= CastNumber(v).n)

\* Track.find().gt(path, value)
FindGt(coll, path, v) == SelectSeq(coll, LAMBDA d : d[path] > CastNumber(v).n)

\* Mutant of FindGte: the comparison strict, as the comment on the route
\* has it ("energy > 80").
FindGteStrict(coll, path, n) == SelectSeq(coll, LAMBDA d : d[path] > n)

\* Track.find({ energy: { $gte: 80 } })
FindGte(coll, path, n) == SelectSeq(coll, LAMBDA d : d[path] >= n)

\* Track.find({ energy: { $lte: 20 } })
FindLte(coll, path, n) == SelectSeq(coll, LAMBDA d : d[path] <= n)

\* Track.findById(id): a path parameter is a well-formed key (of ObjectId
\* shape) or not; a malformed one is a CastError.
Param(oid) == [wellFormed |-> TRUE, oid |-> oid]
Malformed == [wellFormed |-> FALSE, oid |-> 0]
FindById(coll, id) == SelectSeq(coll, LAMBDA d : d._id = id.oid)

\* if (req.query.danceability): a key that is present with a non-empty
\* string ("0" included) is truthy.
Truthy(filter, key) == key \in DOMAIN filter /\ filter[key] # << >>

\* ------------------------------------------------------------- routes
TracksRoute == "/tracks/"
ByIdRoute == "/tracks/id/:id"
ArtistRoute == "/tracks/artist/billie_eilish"
GenreRoute == "/tracks/genre/pop"
WorkoutRoute == "/tracks/playlists/workout/"
CalmRoute == "/tracks/playlists/calm/"
RootRoute == "/"
EndpointsRoute == "/endpoints"
ApiDocsRoute == "/api-docs"

CollectionRoutes == {TracksRoute, ArtistRoute, GenreRoute, WorkoutRoute, CalmRoute}
TrackRoutes == CollectionRoutes \cup {ByIdRoute}
\* The routes registered after the readiness middleware.
GuardedRoutes == TrackRoutes \cup {RootRoute, EndpointsRoute}

\* -------------------------------------------------------------- state
VARIABLES
    build,       \* which of the two builds runs
    resetDb,     \* process.env.RESET_DB
    readyState,  \* mongoose.connection.readyState
    tracks,      \* the Track collection, in insertion order
    seed,        \* where seedDatabase() stands
    unsaved,     \* dataset items whose newTrack.save() has not completed
    req          \* the requests

vars == <<build, resetDb, readyState, tracks, seed, unsaved, req>>

Reqs == 1..MaxReq

NoFilter == [f \in {} |-> << >>]

\* A request not yet received.  status 0: no response sent.  The fields
\* after body record what happened, for the properties below: the number
\* of store queries issued, whether one failed, whether the connection was
\* up when the request arrived, and where the seed step stood when the
\* query behind the response ran.
NewRequest ==
    [st |-> "new", route |-> "", filter |-> NoFilter, id |-> Malformed,
     status |-> 0, body |-> << >>, error |-> "",
     queries |-> 0, failed |-> FALSE, ready |-> FALSE, seenSeed |-> ""]

\* Mutant of Ready: everything but a lost connection counts as ready
\* (readyState !== 0).
ReadyUnlessDisconnected == readyState # DISCONNECTED

\* if (mongoose.connection.readyState === 1) next()
Ready == readyState = CONNECTED

Received(r, route) ==
    [req[r] EXCEPT !.route = route, !.ready = (readyState = CONNECTED)]

\* res.json(body) / res.send(body): status 200.
Json(rq, body) ==
    [rq EXCEPT !.st = "done", !.status = 200, !.body = body, !.seenSeed = seed]

\* res.status(code).json({ error: message })
Error(rq, code, message) ==
    [rq EXCEPT !.st = "done", !.status = code, !.error = message]

\* The store query of the handler is issued.
Query(rq, st) == [rq EXCEPT !.st = st, !.queries = @ + 1]

\* An awaited query rejected in a handler without try/catch: the handler's
\* promise rejects, Express 4 does not observe it, and no response is sent
\* (nor is one sent where the runtime ends the process on the unhandled
\* rejection).
Rejected(rq) == [rq EXCEPT !.st = "rejected", !.failed = TRUE]

\* What the collection holds as the service of Spec starts: a document that
\* is not of the dataset.
InitialTracks == Collection(1, Item("Billie Eilish", "pop", 80, 50), topMusicData[1])

Init ==
    /\ build \in Builds
    /\ resetDb \in BOOLEAN
    /\ readyState = CONNECTING
    /\ tracks = InitialTracks
    /\ seed = IF resetDb THEN "deleteMany" ELSE "off"
    /\ unsaved = {}
    /\ req = [r \in Reqs |-> NewRequest]

\* --------------------------------------------------------- connection
\* mongoose.connect() succeeds, or the driver reconnects after a loss.
Connected ==
    /\ readyState \in {CONNECTING, DISCONNECTED}
    /\ readyState' = CONNECTED
    /\ UNCHANGED <<build, resetDb, tracks, seed, unsaved, req>>

\* The connection is lost.
Disconnected ==
    /\ readyState = CONNECTED
    /\ readyState' = DISCONNECTED
    /\ UNCHANGED <<build, resetDb, tracks, seed, unsaved, req>>

\* --------------------------------------------------------------- seed
\* await Track.deleteMany({}) completes (the call is buffered until the
\* connection is up); the forEach then starts one save() per item of the
\* dataset and awaits none of them.
DeleteMany ==
    /\ seed = "deleteMany"
    /\ readyState = CONNECTED
    /\ tracks' = << >>
    /\ unsaved' = 1..Len(topMusicData)
    /\ seed' = IF Len(topMusicData) = 0 THEN "done" ELSE "saving"
    /\ UNCHANGED <<build, resetDb, readyState, req>>

\* One newTrack.save() completes; the saves run concurrently.
Save(i) ==
    /\ seed = "saving"
    /\ i \in unsaved
    /\ readyState = CONNECTED
    /\ tracks' = Append(tracks, NewTrack(topMusicData[i], SeedId(i)))
    /\ unsaved' = unsaved \ {i}
    /\ seed' = IF unsaved' = {} THEN "done" ELSE "saving"
    /\ UNCHANGED <<build, resetDb, readyState, req>>

\* ---------------------------------------------------------- middleware
\* else res.status(503).json({ error: 'Service unavailable' })
ServiceUnavailable(r, route) ==
    /\ req[r].st = "new"
    /\ route \in GuardedRoutes
    /\ ~Ready
    /\ req' = [req EXCEPT ![r] = Error(Received(r, route), 503, "Service unavailable")]
    /\ UNCHANGED <<build, resetDb, readyState, tracks, seed, unsaved>>

\* app.use('/api-docs', ...) of the documented build stands in front of
\* the readiness middleware.
ApiDocs(r) ==
    /\ req[r].st = "new"
    /\ build = "docs"
    /\ req' = [req EXCEPT ![r] =
                 [Received(r, ApiDocsRoute) EXCEPT !.st = "done", !.status = 200]]
    /\ UNCHANGED <<build, resetDb, readyState, tracks, seed, unsaved>>

\* app.get('/') and app.get('/endpoints'): no store query.
Static(r, route) ==
    /\ req[r].st = "new"
    /\ route \in {RootRoute, EndpointsRoute}
    /\ Ready
    /\ req' = [req EXCEPT ![r] =
                 [Received(r, route) EXCEPT !.st = "done", !.status = 200]]
    /\ UNCHANGED <<build, resetDb, readyState, tracks, seed, unsaved>>

\* ----------------------------------------------------------- handlers
\* Frame of every request action: a handler touches its own request only.
HandlerFrame == UNCHANGED <<build, resetDb, readyState, tracks, seed, unsaved>>

\* app.get('/tracks/'): let tracks = await Track.find(req.query)[.limit(10)]
GetTracks(r, filter) ==
    /\ req[r].st = "new"
    /\ Ready
    /\ req' = [req EXCEPT ![r] =
                 Query([Received(r, TracksRoute) EXCEPT !.filter = filter], "find")]
    /\ HandlerFrame

\* .limit(10) is in server.js only.
Limited(result) == IF build = "server" THEN Take(result, LIMIT) ELSE result

\* Mutant of Exists: the test is on the length (if (tracks.length)).
ExistsNonEmpty(result) == result # << >>

\* if (tracks): the result of find() is an array, and an array, empty or
\* not, is truthy.
Exists(result) == TRUE

\* The first query resolves.  With a truthy danceability the second query
\* is issued and the first result dropped; otherwise the result is sent.
TracksFound(r) ==
    /\ req[r].st = "find"
    /\ req[r].route = TracksRoute
    /\ ~CastError(req[r].filter)
    /\ LET result == Limited(Find(tracks, req[r].filter))
       IN req' = [req EXCEPT ![r] =
                    IF Exists(result)
                    THEN IF Truthy(req[r].filter, "danceability")
                         THEN Query(req[r], "gt")
                         ELSE Json(req[r], result)
                    ELSE Error(req[r], 404, "Not found")]
    /\ HandlerFrame

\* const songsByDanceability = await Track.find().gt('danceability', ...)
\* resolves; res.json(tracks).
TracksGtFound(r) ==
    /\ req[r].st = "gt"
    /\ req' = [req EXCEPT ![r] =
                 Json(req[r], FindGt(tracks, "danceability",
                                     req[r].filter["danceability"]))]
    /\ HandlerFrame

\* Either await rejects (a CastError of the filter, or the store fails):
\* the handler has no try/catch.
TracksRejected(r) ==
    /\ req[r].st \in {"find", "gt"}
    /\ req[r].route = TracksRoute
    /\ req' = [req EXCEPT ![r] = Rejected(req[r])]
    /\ HandlerFrame

\* app.get('/tracks/id/:id'): await Track.findById(req.params.id)
GetTrackById(r, id) ==
    /\ req[r].st = "new"
    /\ Ready
    /\ req' = [req EXCEPT ![r] =
                 Query([Received(r, ByIdRoute) EXCEPT !.id = id], "findById")]
    /\ HandlerFrame

\* Mutant of TrackByIdFound: the result is sent without the null check.
TrackByIdFoundUnchecked(r) ==
    /\ req[r].st = "findById"
    /\ req[r].id.wellFormed
    /\ req' = [req EXCEPT ![r] = Json(req[r], FindById(tracks, req[r].id))]
    /\ HandlerFrame

\* findById resolves: to the document, or to null when no document has
\* the key.
TrackByIdFound(r) ==
    /\ req[r].st = "findById"
    /\ req[r].id.wellFormed
    /\ LET trackById == FindById(tracks, req[r].id)
       IN req' = [req EXCEPT ![r] =
                    IF trackById # << >>
                    THEN Json(req[r], <<trackById[1]>>)
                    ELSE Error(req[r], 404, "Track not found")]
    /\ HandlerFrame

\* catch (err): the CastError of a malformed key, and any failure of the
\* store as well.
TrackByIdCaught(r) ==
    /\ req[r].st = "findById"
    /\ req' = [req EXCEPT ![r] =
                 Error([req[r] EXCEPT !.failed = TRUE], 400, "Invalid Id")]
    /\ HandlerFrame

\* The four fixed collections: Track.find(conditions, callback).
Conditions(route, coll) ==
    CASE route = ArtistRoute -> Find(coll, [artistName |-> "Billie Eilish"])
      [] route = GenreRoute -> Find(coll, [genre |-> "pop"])
      [] route = WorkoutRoute -> FindGte(coll, "energy", WorkoutEnergy)
      [] route = CalmRoute -> FindLte(coll, "energy", CalmEnergy)

\* (error, data) => error ? res.status(404).json(...) : res.send(data)
Callback(rq, error) ==
    IF error
    THEN Error([rq EXCEPT !.failed = TRUE], 404, "Not found")
    ELSE Json(rq, Conditions(rq.route, tracks))

GetCollection(r, route) ==
    /\ req[r].st = "new"
    /\ Ready
    /\ req' = [req EXCEPT ![r] = Query(Received(r, route), "find")]
    /\ HandlerFrame

GetArtist(r) == GetCollection(r, ArtistRoute)
GetGenre(r) == GetCollection(r, GenreRoute)
GetWorkout(r) == GetCollection(r, WorkoutRoute)
GetCalm(r) == GetCollection(r, CalmRoute)

\* Mutant of CollectionCallback: the handler removes what it found
\* (findOneAndDelete-like) instead of only reading it.
CollectionCallbackRemoving(r, route, error) ==
    /\ req[r].st = "find"
    /\ req[r].route = route
    /\ req' = [req EXCEPT ![r] = Callback(req[r], error)]
    /\ tracks' = SelectSeq(tracks,
                     LAMBDA d : d \notin {Conditions(route, tracks)[i] :
                                           i \in 1..Len(Conditions(route, tracks))})
    /\ UNCHANGED <<build, resetDb, readyState, seed, unsaved>>

CollectionCallback(r, route, error) ==
    /\ req[r].st = "find"
    /\ req[r].route = route
    /\ req' = [req EXCEPT ![r] = Callback(req[r], error)]
    /\ HandlerFrame

ArtistCallback(r) == \E error \in BOOLEAN : CollectionCallback(r, ArtistRoute, error)
GenreCallback(r) == \E error \in BOOLEAN : CollectionCallback(r, GenreRoute, error)
WorkoutCallback(r) == \E error \in BOOLEAN : CollectionCallback(r, WorkoutRoute, error)
CalmCallback(r) == \E error \in BOOLEAN : CollectionCallback(r, CalmRoute, error)

\* ------------------------------------------------------------- inputs
Filter(keys, artist, genre, danceability) ==
    [k \in keys |-> CASE k = "artistName" -> artist
                      [] k = "genre" -> genre
                      [] k = "danceability" -> danceability]

FilterKeys == {"artistName", "genre", "danceability"}

\* req.query of the requests of SpecQuery: every subset of the keys, with
\* danceability empty, "0", "50" and not a number.
Filters ==
    { Filter(keys, a, g, d) :
        keys \in SUBSET FilterKeys, a \in {"Drake", "Billie Eilish"},
        g \in {"pop", "rap"},
        d \in {<< >>, <<"0">>, <<"5", "0">>, <<"x">>} }

\* req.query of the requests of Spec.
FewFilters ==
    { Filter(keys, "Drake", "pop", <<"5", "0">>) :
        keys \in {{}, {"genre", "danceability"}} }

\* req.params.id: the key of the first two documents, a well-formed key of
\* no document, a malformed one.
Params == {Param(1), Param(2), Param(SeedId(1)), Param(0), Malformed}
FewParams == {Param(1), Malformed}

Handlers(r) ==
    \/ \E route \in GuardedRoutes : ServiceUnavailable(r, route)
    \/ ApiDocs(r)
    \/ \E route \in {RootRoute, EndpointsRoute} : Static(r, route)
    \/ TracksFound(r)
    \/ TracksGtFound(r)
    \/ TracksRejected(r)
    \/ TrackByIdFound(r)
    \/ TrackByIdCaught(r)
    \/ GetArtist(r) \/ ArtistCallback(r)
    \/ GetGenre(r) \/ GenreCallback(r)
    \/ GetWorkout(r) \/ WorkoutCallback(r)
    \/ GetCalm(r) \/ CalmCallback(r)

Connection == Connected \/ Disconnected

Seed == DeleteMany \/ \E i \in 1..Len(topMusicData) : Save(i)

\* The whole service: the connection, the seed step and MaxReq requests.
Next ==
    \/ Connection
    \/ Seed
    \/ \E r \in Reqs :
         \/ Handlers(r)
         \/ \E filter \in FewFilters : GetTracks(r, filter)
         \/ \E id \in FewParams : GetTrackById(r, id)

Spec == Init /\ [][Next]_vars

\* One request against every collection of the family and every filter.
InitQuery ==
    /\ build \in Builds
    /\ resetDb = FALSE
    /\ readyState = CONNECTING
    /\ tracks \in {Collection(n, a, b) : n \in 0..MaxTracks, a \in Items, b \in Items}
    /\ seed = "off"
    /\ unsaved = {}
    /\ req = [r \in Reqs |-> NewRequest]

NextQuery ==
    \/ Connection
    \/ Handlers(1)
    \/ \E filter \in Filters : GetTracks(1, filter)
    \/ \E id \in Params : GetTrackById(1, id)

SpecQuery == InitQuery /\ [][NextQuery]_vars

\* ========================================================== properties
Range(s) == {s[i] : i \in 1..Len(s)}

\* The handler of request r ran (the readiness middleware let it through)
\* and a response went out.
Answered(r) == req[r].ready /\ req[r].status # 0

\* Request r is a GET /tracks/ whose danceability parameter is a number.
HasThreshold(r) ==
    /\ req[r].route = TracksRoute
    /\ "danceability" \in DOMAIN req[r].filter
    /\ req[r].filter["danceability"] # << >>
    /\ \A i \in 1..Len(req[r].filter["danceability"]) :
         req[r].filter["danceability"][i] \in Digits

Threshold(r) == DecimalVal(req[r].filter["danceability"])

EqualOnAll(filter) ==
    SelectSeq(tracks, LAMBDA d : \A k \in DOMAIN filter : d[k] = filter[k])

\* C2 (as stated): a response of GET /tracks/ to a filter without a
\* danceability key is 200 with the documents equal on every supplied key,
\* in the collection's order, cut to the first 10.
C2_Original ==
    \A r \in Reqs :
        /\ req[r].route = TracksRoute
        /\ "danceability" \notin DOMAIN req[r].filter
        /\ Answered(r)
        => /\ req[r].status = 200
           /\ req[r].body = Take(EqualOnAll(req[r].filter), 10)

\* C3 (as stated, for the build that has the cap): a 200 response of
\* GET /tracks/ of server.js carries at most 10 documents, with the
\* danceability override as without.
C3_Original ==
    \A r \in Reqs :
        /\ build = "server"
        /\ req[r].route = TracksRoute
        /\ req[r].status = 200
        => Len(req[r].body) <= 10

KeyExists(id) == \E d \in Range(tracks) : d._id = id.oid

\* C4 (as stated): the response of GET /tracks/id/:id follows from the key
\* alone: 200 with the document of a well-formed key that exists, 404 for a
\* well-formed key of no document, 400 for a malformed key and for no other.
C4_Original ==
    \A r \in Reqs :
        req[r].route = ByIdRoute /\ Answered(r) =>
            /\ req[r].id.wellFormed /\ KeyExists(req[r].id) => req[r].status = 200
            /\ req[r].id.wellFormed /\ ~KeyExists(req[r].id) => req[r].status = 404
            /\ ~req[r].id.wellFormed <=> req[r].status = 400

\* C4 (amended): 400 answers a malformed key and every lookup the store
\* failed on; a well-formed key whose lookup completed gets 200 with the
\* one document of that key, or 404 when there is none.
C4_Amended ==
    \A r \in Reqs :
        req[r].route = ByIdRoute /\ Answered(r) =>
            /\ req[r].status \in {200, 400, 404}
            /\ req[r].status = 400 <=> req[r].failed
            /\ ~req[r].id.wellFormed => req[r].status = 400
            /\ req[r].status = 200 =>
                 /\ req[r].id.wellFormed
                 /\ Len(req[r].body) = 1
                 /\ req[r].body[1] \in Range(tracks)
                 /\ req[r].body[1]._id = req[r].id.oid
            /\ req[r].status = 404 =>
                 req[r].id.wellFormed /\ ~KeyExists(req[r].id)
            /\ req[r].id.wellFormed /\ ~req[r].failed =>
                 (req[r].status = 200 <=> KeyExists(req[r].id))

\* C4 witness: a well-formed key of an existing document answered 400.
C4_Witness ==
    \E r \in Reqs :
        /\ req[r].route = ByIdRoute /\ Answered(r)
        /\ req[r].id.wellFormed /\ KeyExists(req[r].id)
        /\ req[r].status = 400

\* C5 (as stated): a request that arrives while the connection is not up
\* is answered 503 and issues no store query, whatever its route.
C5_Original ==
    \A r \in Reqs :
        req[r].st # "new" /\ ~req[r].ready =>
            req[r].status = 503 /\ req[r].queries = 0

\* C5 (amended): a request to a route registered after the readiness
\* middleware is answered 503, with no store query, exactly when the
\* connection is not up as it arrives; a store query is issued only for a
\* request that arrived with the connection up; /api-docs of the
\* documented build is answered 200 either way.
C5_Amended ==
    \A r \in Reqs :
        req[r].st # "new" =>
            /\ req[r].route \in GuardedRoutes \cup {ApiDocsRoute}
            /\ req[r].route \in GuardedRoutes =>
                 /\ req[r].status = 503 <=> ~req[r].ready
                 /\ ~req[r].ready => req[r].st = "done" /\ req[r].queries = 0
            /\ req[r].queries > 0 => req[r].ready
            /\ req[r].route = ApiDocsRoute =>
                 build = "docs" /\ req[r].status = 200 /\ req[r].queries = 0

\* C5 witness: a track route answered 503 without a store query.
C5_Witness ==
    \E r \in Reqs :
        /\ req[r].route \in TrackRoutes
        /\ req[r].status = 503 /\ req[r].queries = 0 /\ ~req[r].ready

\* The handler of r has returned, or its promise has settled: it takes no
\* further step.
Ended(r) == req[r].st \in {"done", "rejected"}

\* C6 (as stated): a request to a track route whose handler has ended has
\* its response; one whose store query failed was answered 404, or 400 on
\* the lookup by id.
C6_Original ==
    \A r \in Reqs :
        req[r].route \in TrackRoutes /\ Ended(r) =>
            /\ req[r].status # 0
            /\ req[r].failed =>
                 req[r].status = IF req[r].route = ByIdRoute THEN 400 ELSE 404

Selected(r, d) ==
    CASE req[r].route = TracksRoute ->
           IF HasThreshold(r) THEN d.danceability > Threshold(r)
           ELSE /\ "danceability" \notin DOMAIN req[r].filter
                /\ \A k \in DOMAIN req[r].filter : d[k] = req[r].filter[k]
      [] req[r].route = ArtistRoute -> d.artistName = "Billie Eilish"
      [] req[r].route = GenreRoute -> d.genre = "pop"
      [] req[r].route = WorkoutRoute -> d.energy >= 80
      [] req[r].route = CalmRoute -> d.energy <= 20

C9_HandlersReadOnly ==
    /\ [](~resetDb => tracks = InitialTracks)
    /\ [][ req' # req =>
            /\ tracks' = tracks
            /\ <<readyState, seed, unsaved>>' = <<readyState, seed, unsaved>>
            /\ Cardinality({r \in Reqs : req'[r] # req[r]}) = 1 ]_vars

\* C9 witness: two requests have ended, one answered 200 from a store
\* query and one answered with an error, and the collection is as it was
\* at the start.
C9_Witness ==
    /\ req[1].status = 200 /\ req[1].queries > 0
    /\ req[2].status \in {400, 404, 503}
    /\ ~resetDb /\ tracks = InitialTracks /\ tracks # << >>

\* C10 (as stated): with RESET_DB no store query of a request runs while
\* the seed step has cleared the collection and not yet saved every item.
C10_Original ==
    \A r \in Reqs :
        resetDb /\ req[r].status = 200 /\ req[r].queries > 0 =>
            req[r].seenSeed # "saving"

====
